---- MODULE Spec2Model ----
(***************************************************************************)
(* Signup-request lifecycle of dicideon: the CSV request files written by  *)
(* utils/request_handler.py, the administrator's actions of                *)
(* admin/actions.py, the users, requests and password_resets tables of     *)
(* database.py, and the password reset of auth/password_reset_utils.py.    *)
(*                                                                         *)
(* Time is counted in steps of 1/SubSecondSteps second, so that            *)
(* datetime.now() can fall between two whole seconds while a timestamp     *)
(* written with strftime("%Y-%m-%d %H:%M:%S") keeps whole seconds only.    *)
(* A CSV cell is <<>> when empty and <<v>> when it holds v.                *)
(***************************************************************************)
EXTENDS Integers, Sequences, FiniteSets, TLC

VARIABLES
    now,              \* datetime.now(), in clock steps
    pendingFile,      \* rows of data/pending_requests.csv
    validationExists, \* whether data/pending_requests_validation.csv exists
    validationFile,   \* rows of data/pending_requests_validation.csv
    users,            \* rows of the users table
    otp_expires_at,   \* per email: the datetime last returned for its stored code
    verified,         \* per email: the code verified since its last initiate (history)
    checked,          \* submissions past check_uniqueness, not yet initiated
    requests,         \* rows of the requests table
    password_resets,  \* rows of the password_resets table (token is UNIQUE)
    token_expires_at, \* per token: the datetime computed when it was issued (history)
    sessions,         \* per session: its call in flight (its position and what it read)
    ret               \* the last call: its arguments, outcome and dispatch

vars == <<now, pendingFile, validationExists, validationFile, users,
          otp_expires_at, verified, checked, requests, password_resets,
          token_expires_at, sessions, ret>>

\* the request files and their history
csvvars == <<pendingFile, validationExists, validationFile, otp_expires_at,
             verified, checked>>

\* the requests and password_resets tables and their history
dbvars == <<requests, password_resets, token_expires_at, sessions>>

----------------------------------------------------------------------------
\* Bounds of the model

\* clock steps per second
SubSecondSteps == 2
\* the clock reaches MaxSub steps into each OTP lifetime
MaxSub == 1
\* OTP lifetimes the clock spans beyond the first
MaxEra == 1
\* the generator draws from OtpLow .. OtpLow + MaxCodeOffset
MaxCodeOffset == 1
\* submissions that may sit between check_uniqueness and initiate
MaxInflight == 1

\* reset tokens are drawn from 1 .. MaxTokens
MaxTokens == 2
\* browser sessions that ask for a reset link side by side
MaxSessions == 2
\* the salts a hash may be taken with
MaxSalt == 2
\* the longest password text that is validated
MaxPasswordLen == 8
\* a verify starts only while the validation file holds fewer rows than this
MaxValidationRows == 2

\* Program constants
OtpLow == 100000
OtpHigh == 999999
OtpMinutes == 10
AddApprovedUserParams == 10
AddUserParams == 3
ApproveCallArgs == 3
RegisterCallArgs == 3
ResetHours == 1
MinPasswordLen == 8

OtpTtl == OtpMinutes * 60 * SubSecondSteps

Clock == {e * OtpTtl + s : e \in 0..MaxEra, s \in 0..MaxSub}

OtpDraws == {c \in OtpLow..(OtpLow + MaxCodeOffset) : c <= OtpHigh}

\* the values secrets.token_urlsafe(32) may return
Tokens == 1..MaxTokens

ResetTtl == ResetHours * 60 * 60 * SubSecondSteps

\* the clock of the password reset: around the issue and around the expiry
ResetClock == {e * ResetTtl + s : e \in 0..MaxEra, s \in 0..MaxSub}

\* the new passwords a visitor may choose (validate_password accepts them)
Passwords == {"pw1", "pw2"}

\* a transaction commits or fails and is rolled back
DbOutcomes == {"ok", "OperationalError"}

\* the users table as an earlier migration left it
LegacyUsers == <<[email |-> "a@x.com", username |-> "u2", password |-> <<"hash", 1, "pw0">>]>>

Emails == {"a@x.com", "b@x.com"}

\* The valid forms a visitor submits (every field-level check of main.py passes)
Forms ==
    { [email |-> "a@x.com", user_id |-> "u1", contact_number |-> "c1", password |-> "pw1"],
      [email |-> "b@x.com", user_id |-> "u2", contact_number |-> "c2", password |-> "pw1"] }

\* Rows of data/users.csv that the migration script may insert
CsvUsers ==
    { [email |-> "b@x.com", username |-> "u1", password |-> <<"hash", 1, "pw0">>] }

DispatchOutcomes == {"sent", "EmailConfigurationError", "EmailSendingError"}

EmptyCell == <<>>

Sessions == 1..MaxSessions

\* a session with no generate_reset_token call in flight
Idle == [pc |-> "idle", email |-> "", token |-> 0, rows |-> {}, expires_at |-> EmptyCell]

----------------------------------------------------------------------------
\* Helpers

Salts == 1..MaxSalt

\* utils.hashing: the hash string of a plaintext taken with a salt; the
\* string names the salt, and it is not the plaintext
salted_hash(p, salt) == <<"hash", salt, p>>

\* utils.hashing.hash_password as the handlers call it; their hashes are
\* taken with one salt, since no handler compares two hashes
hash_password(p) == salted_hash(p, 1)

\* a stored value that is no hash string
Malformed == <<"plain", 0, "pw1">>

\* (mutant) every well-formed hash verifies, whatever the plaintext
VerifyPasswordAnyPlaintext(p, hashed) == hashed[1] = "hash"

\* utils.hashing.verify_password: the plaintext is hashed again with the salt
\* of the stored hash and compared; a malformed hash gives False
verify_password(p, hashed) ==
    hashed[1] = "hash" /\ salted_hash(p, hashed[2]) = hashed

\* strftime("%Y-%m-%d %H:%M:%S"): the whole seconds of a datetime
Strftime(t) == <<t \div SubSecondSteps>>

\* datetime.strptime(text, "%Y-%m-%d %H:%M:%S")
Strptime(cell) == cell[1] * SubSecondSteps

\* datetime.now() + timedelta(minutes=10)
ExpiresAt(t) == t + OtpTtl

\* (mutant) the first row whatever its email: the filter of the lookup is lost
AwaitingIndexAnyEmail(df, email) == IF Len(df) > 0 THEN 1 ELSE 0

RECURSIVE SelectIndex(_, _, _, _)
\* index of the first row of df from position i on with this email and status; 0 if none
SelectIndex(df, i, email, status) ==
    IF i > Len(df) THEN 0
    ELSE IF df[i].email = email /\ df[i].status = status THEN i
    ELSE SelectIndex(df, i + 1, email, status)

\* df[(df['email'] == email) & (df['status'] == 'awaiting_otp')].index[0], 0 when empty
AwaitingIndex(df, email) == SelectIndex(df, 1, email, "awaiting_otp")

\* df[df['email'] != email]
WithoutEmail(df, email) == SelectSeq(df, LAMBDA r : r.email # email)

\* df[df['email'] == email]
WithEmail(df, email) == SelectSeq(df, LAMBDA r : r.email = email)

\* df.drop(i)
Drop(df, i) == [j \in 1..(Len(df) - 1) |-> IF j < i THEN df[j] ELSE df[j + 1]]

Range(s) == {s[i] : i \in 1..Len(s)}

\* the cell texts pandas.read_csv takes for integers, each with the decimal
\* text of the integer it parses to (leading zeros are lost)
CanonicalInt == ("7" :> "7") @@ ("07" :> "7") @@ ("8" :> "8")

IsIntegerText(text) == text \in DOMAIN CanonicalInt

\* read_csv infers int64 for a column all of whose cells are integer texts
ColumnIsInt(df, col) ==
    Len(df) > 0 /\ \A i \in 1..Len(df) : IsIntegerText(df[i][col])

\* the value read_csv gives row i of the column: an int or the text itself
InferredCell(df, col, i) ==
    IF ColumnIsInt(df, col) THEN [t |-> "int", v |-> CanonicalInt[df[i][col]]]
    ELSE [t |-> "str", v |-> df[i][col]]

\* a Python str
Str(text) == [t |-> "str", v |-> text]

\* Series.astype(str)
AsStr(cell) == [t |-> "str", v |-> cell.v]

\* the rows to_csv writes after pd.read_csv(file) read them
Rewritten(df) ==
    [i \in 1..Len(df) |->
        [df[i] EXCEPT !.user_id = InferredCell(df, "user_id", i).v,
                      !.contact_number = InferredCell(df, "contact_number", i).v]]

\* the same after pd.read_csv(file, dtype={'contact_number': str})
RewrittenContactStr(df) ==
    [i \in 1..Len(df) |-> [df[i] EXCEPT !.user_id = InferredCell(df, "user_id", i).v]]

Ret(op, email, otp, old, result, mail, expires) ==
    [op |-> op, email |-> email, otp |-> otp, old |-> old,
     result |-> result, mail |-> mail, expires |-> expires]

----------------------------------------------------------------------------
\* utils/request_handler.py

\* the row initiate_signup_and_send_otp saves
RequestData(form_data, otp, t) ==
    [email |-> form_data.email,
     user_id |-> form_data.user_id,
     contact_number |-> form_data.contact_number,
     status |-> "awaiting_otp",
     user_password |-> hash_password(form_data.password),
     otp |-> <<otp>>,
     otp_expires_at |-> Strftime(ExpiresAt(t))]

\* (mutant) the new row is appended and the previous attempt stays
SavePendingAppends(df, request_data) == Append(df, request_data)

\* the pending file after initiate: any previous attempt of the email is overwritten
SavePending(df, request_data) ==
    Append(WithoutEmail(Rewritten(df), request_data.email), request_data)

\* the stored code of the email's awaiting row, <<>> if there is none
StoredOtp(df, email) ==
    IF AwaitingIndex(df, email) = 0 THEN EmptyCell
    ELSE df[AwaitingIndex(df, email)].otp

\* (mutant) the OTP is sent first, and the row saved only when that succeeded
PendingAfterInitiateSendsFirst(df, request_data, d) ==
    IF d = "sent" THEN SavePending(df, request_data) ELSE df

\* the pending file after initiate: to_csv runs before send_otp_email, so the
\* row is saved whatever the dispatch does
PendingAfterInitiate(df, request_data, d) == SavePending(df, request_data)

initiate_signup_and_send_otp(form_data, otp, d) ==
    /\ pendingFile' = PendingAfterInitiate(pendingFile, RequestData(form_data, otp, now), d)
    /\ otp_expires_at' = [otp_expires_at EXCEPT ![form_data.email] = <<ExpiresAt(now)>>]
    /\ verified' = [verified EXCEPT ![form_data.email] = EmptyCell]
    /\ ret' = Ret("initiate", form_data.email, <<otp>>,
                  StoredOtp(pendingFile, form_data.email),
                  IF d = "sent" THEN "expires" ELSE d, d,
                  IF d = "sent" THEN <<ExpiresAt(now)>> ELSE EmptyCell)
    /\ UNCHANGED <<now, validationExists, validationFile, users>>

\* (mutant) only the expiry is refreshed; the old code stays stored
RegenerateKeepsCode(row, new_otp, t) ==
    [row EXCEPT !.otp_expires_at = Strftime(ExpiresAt(t))]

\* the row regenerate_and_resend_otp rewrites
Regenerate(row, new_otp, t) ==
    [row EXCEPT !.otp = <<new_otp>>, !.otp_expires_at = Strftime(ExpiresAt(t))]

regenerate_and_resend_otp(email, new_otp, d) ==
    LET request_index == AwaitingIndex(pendingFile, email) IN
    /\ IF request_index = 0
       THEN /\ ret' = Ret("resend", email, EmptyCell, EmptyCell, "None", "none", EmptyCell)
            /\ UNCHANGED <<pendingFile, otp_expires_at>>
       ELSE /\ pendingFile' = [Rewritten(pendingFile) EXCEPT ![request_index] =
                                  Regenerate(Rewritten(pendingFile)[request_index],
                                             new_otp, now)]
            /\ otp_expires_at' = [otp_expires_at EXCEPT ![email] = <<ExpiresAt(now)>>]
            /\ ret' = Ret("resend", email, <<new_otp>>, pendingFile[request_index].otp,
                          IF d = "sent" THEN "expires" ELSE d, d,
                          IF d = "sent" THEN <<ExpiresAt(now)>> ELSE EmptyCell)
    /\ UNCHANGED <<now, validationExists, validationFile, users, verified, checked>>

\* str(record['otp']) != otp or datetime.now() > expires_at
OtpRejected(record, otp, t) ==
    \/ record.otp # <<otp>>
    \/ t > Strptime(record.otp_expires_at)

\* whether verify finds an awaiting row of the email and accepts the code at time t
VerifyAccepts(df, email, otp, t) ==
    /\ AwaitingIndex(df, email) # 0
    /\ ~OtpRejected(df[AwaitingIndex(df, email)], otp, t)

\* (mutant) the awaiting row is removed before the code is compared
PendingAfterVerifyDropsFirst(df, email, otp, t) ==
    IF AwaitingIndex(df, email) # 0 THEN Drop(df, AwaitingIndex(df, email)) ELSE df

\* (mutant) the verified row is never removed from the pending file
PendingAfterVerifyKeepsRow(df, email, otp, t) == df

\* the pending file verify leaves behind
PendingAfterVerify(df, email, otp, t) ==
    IF VerifyAccepts(df, email, otp, t)
    THEN Drop(Rewritten(df), AwaitingIndex(df, email)) ELSE df

\* (mutant) the status changes but the code and its expiry are kept
FinalizeKeepsCode(record) == [record EXCEPT !.status = "pending"]

\* the record verify appends to the validation file
Finalize(record) ==
    [record EXCEPT !.status = "pending", !.otp = EmptyCell, !.otp_expires_at = EmptyCell]

verify_otp_and_finalize_request(email, otp, d) ==
    /\ pendingFile' = PendingAfterVerify(pendingFile, email, otp, now)
    /\ IF VerifyAccepts(pendingFile, email, otp, now)
       THEN /\ validationExists' = TRUE
            /\ validationFile' =
                  Append(Rewritten(validationFile),
                         Finalize(Rewritten(pendingFile)[AwaitingIndex(pendingFile, email)]))
            /\ otp_expires_at' = [otp_expires_at EXCEPT ![email] = EmptyCell]
            /\ verified' = [verified EXCEPT ![email] = <<otp>>]
            /\ ret' = Ret("verify", email, <<otp>>, EmptyCell,
                          IF d = "sent" THEN "True" ELSE d, d, EmptyCell)
       ELSE /\ ret' = Ret("verify", email, <<otp>>, EmptyCell, "False", "none", EmptyCell)
            /\ UNCHANGED <<validationExists, validationFile, otp_expires_at, verified>>
    /\ UNCHANGED <<now, users, checked>>

----------------------------------------------------------------------------
\* utils/validator.py

\* auth_utils.load_users(): the users, with username renamed to user_id
load_users(us) == [i \in 1..Len(us) |-> [email |-> us[i].email, user_id |-> us[i].username]]

EmailError == "This email address is already registered or pending approval."
UserIdError == "This User ID is already registered or pending approval."
ContactError == "This contact number is already registered or pending approval."

\* the least element of a set of row indices: .iloc[0]
FirstOf(S) == CHOOSE i \in S : \A j \in S : i <= j

\* (mutant) only the users are searched for the email
EmailIsDuplicateUsersOnly(users_df, validation_df, email) ==
    \E r \in Range(users_df) : r.email = email

\* is_email_duplicate: the email is among the users' or the validation file's
EmailIsDuplicate(users_df, validation_df, email) ==
    \/ \E r \in Range(users_df) : r.email = email
    \/ \E r \in Range(validation_df) : r.email = email

\* the notification of a duplicate found at the original owner's row, unless
\* the owner is the submitted email
Notify(field, original_email, email) ==
    IF original_email # email THEN {<<field, original_email>>} ELSE {}

\* check_uniqueness: the error messages (list(set(errors))) and the
\* notifications (a dict, here its items); the validation file is read with
\* read_csv's inferred types, its contact_number column then cast to str
check_uniqueness(email, user_id, contact_number, us, vexists, vf) ==
    LET users_df == load_users(us)
        validation_df == IF vexists THEN vf ELSE <<>>
        in_users == {i \in 1..Len(users_df) : users_df[i].user_id = user_id}
        in_validation ==
            {i \in 1..Len(validation_df) :
                InferredCell(validation_df, "user_id", i) = Str(user_id)}
        contacts ==
            {i \in 1..Len(validation_df) :
                AsStr(InferredCell(validation_df, "contact_number", i)) = Str(contact_number)}
        is_email_duplicate == EmailIsDuplicate(users_df, validation_df, email)
    IN  [errors |->
            (IF is_email_duplicate THEN {EmailError} ELSE {})
            \cup (IF in_users # {} \/ in_validation # {} THEN {UserIdError} ELSE {})
            \cup (IF contacts # {} THEN {ContactError} ELSE {}),
         notifications |->
            (IF is_email_duplicate THEN {<<"Email Address", email>>} ELSE {})
            \cup (IF in_users # {}
                  THEN Notify("User ID", users_df[FirstOf(in_users)].email, email)
                  ELSE IF in_validation # {}
                  THEN Notify("User ID", validation_df[FirstOf(in_validation)].email, email)
                  ELSE {})
            \cup (IF contacts # {}
                  THEN Notify("Contact Number", validation_df[FirstOf(contacts)].email, email)
                  ELSE {})]

----------------------------------------------------------------------------
\* admin/actions.py, auth/auth_utils.py

\* whether a call with this many arguments binds a signature with this many
\* required parameters (Python raises TypeError otherwise)
CallBinds(supplied, required) == supplied = required

\* database.add_user as add_approved_user calls it: ten arguments for three
\* parameters, and a body that reads names it never binds
add_user ==
    IF ~CallBinds(AddApprovedUserParams, AddUserParams) THEN "TypeError" ELSE "NameError"

\* auth_utils.add_approved_user as approve_request calls it: three keyword
\* arguments for ten required parameters; neither error is the ValueError
\* that approve_request catches
add_approved_user ==
    IF ~CallBinds(ApproveCallArgs, AddApprovedUserParams) THEN "TypeError" ELSE add_user

\* (mutant) the request is looked up among those awaiting their OTP as well
RequestByEmailAnyFile(validation_df, request_email) ==
    WithEmail(validation_df \o pendingFile, request_email)

\* _get_request_by_email: the rows of the email in the validation file
RequestByEmail(validation_df, request_email) == WithEmail(validation_df, request_email)

\* the row add_user inserts: users.email is UNIQUE, users.username is not
NewUser(email, username, hashed_password) ==
    [email |-> email, username |-> username, password |-> hashed_password]

\* (mutant) the call binds and the INSERT runs, refused only by users.email UNIQUE
UsersAfterApproveInserts(us, user_info) ==
    IF \E u \in Range(us) : u.email = user_info.email
    THEN us
    ELSE Append(us, NewUser(user_info.email, user_info.user_id, user_info.user_password))

\* the users after approve_request's call of add_approved_user: a row is
\* inserted only when the call returns
UsersAfterApprove(us, user_info) ==
    IF add_approved_user = "None"
    THEN Append(us, NewUser(user_info.email, user_info.user_id, user_info.user_password))
    ELSE us

approve_request(request_email) ==
    /\ ret' = Ret("approve", request_email, EmptyCell, EmptyCell,
                  IF ~validationExists THEN "KeyError"
                  ELSE IF RequestByEmail(validationFile, request_email) = <<>>
                       THEN "False: Request not found."
                  ELSE add_approved_user,
                  "none", EmptyCell)
    /\ users' = IF validationExists /\ RequestByEmail(validationFile, request_email) # <<>>
                THEN UsersAfterApprove(users, RequestByEmail(validationFile, request_email)[1])
                ELSE users
    /\ UNCHANGED <<now, pendingFile, validationExists, validationFile,
                   otp_expires_at, verified, checked>>

\* database.add_user as register_user calls it: the three arguments bind, the
\* body then reads names it never binds; NameError is not the IntegrityError
\* that register_user catches
add_user_registered ==
    IF ~CallBinds(RegisterCallArgs, AddUserParams) THEN "TypeError" ELSE "NameError"

\* (mutant) the INSERT runs, refused only by users.email UNIQUE
UsersAfterRegisterInserts(us, email, username, hashed_password) ==
    IF \E u \in Range(us) : u.email = email
    THEN us
    ELSE Append(us, NewUser(email, username, hashed_password))

\* the users after register_user's call of add_user
UsersAfterRegister(us, email, username, hashed_password) ==
    IF add_user_registered = "None"
    THEN Append(us, NewUser(email, username, hashed_password))
    ELSE us

register_user(email, username, password) ==
    /\ users' = UsersAfterRegister(users, email, username, hash_password(password))
    /\ ret' = Ret("register", email, <<username>>, EmptyCell, add_user_registered,
                  "none", EmptyCell)
    /\ UNCHANGED <<now, pendingFile, validationExists, validationFile,
                   otp_expires_at, verified, checked>>

reject_request(request_email, d) ==
    /\ IF ~validationExists
       THEN /\ ret' = Ret("reject", request_email, EmptyCell, EmptyCell, "KeyError", "none", EmptyCell)
            /\ UNCHANGED validationFile
       ELSE IF RequestByEmail(validationFile, request_email) = <<>>
       THEN /\ ret' = Ret("reject", request_email, EmptyCell, EmptyCell,
                          "False: Request not found.", "none", EmptyCell)
            /\ UNCHANGED validationFile
       ELSE /\ validationFile' = WithoutEmail(RewrittenContactStr(validationFile),
                                               request_email)
            /\ ret' = Ret("reject", request_email, EmptyCell, EmptyCell,
                          IF d = "sent" THEN "True" ELSE d, d, EmptyCell)
    /\ UNCHANGED <<now, pendingFile, validationExists, users, otp_expires_at, verified, checked>>

\* request_handler.send_corruption_notification_email: the notice that asks
\* the visitor to sign up again, dispatched like every other notification
send_corruption_notification_email(d) == d

\* the same removal as reject_request, with another message and another notice
handle_corrupted_request(request_email, d) ==
    /\ IF ~validationExists
       THEN /\ ret' = Ret("handle_corrupted", request_email, EmptyCell, EmptyCell,
                          "KeyError", "none", EmptyCell)
            /\ UNCHANGED validationFile
       ELSE IF RequestByEmail(validationFile, request_email) = <<>>
       THEN /\ ret' = Ret("handle_corrupted", request_email, EmptyCell, EmptyCell,
                          "False: Corrupted request not found.", "none", EmptyCell)
            /\ UNCHANGED validationFile
       ELSE /\ validationFile' = WithoutEmail(RewrittenContactStr(validationFile),
                                               request_email)
            /\ ret' = Ret("handle_corrupted", request_email, EmptyCell, EmptyCell,
                          IF send_corruption_notification_email(d) = "sent"
                          THEN "True" ELSE send_corruption_notification_email(d),
                          send_corruption_notification_email(d), EmptyCell)
    /\ UNCHANGED <<now, pendingFile, validationExists, users, otp_expires_at, verified, checked>>

----------------------------------------------------------------------------
\* scripts/migrate_csv_to_sqlite.py

\* one row of users.csv: inserted unless a user with its email exists
migrate_users(row) ==
    /\ users' = IF \E u \in Range(users) : u.email = row.email
                THEN users ELSE Append(users, row)
    /\ ret' = Ret("migrate", row.email, EmptyCell, EmptyCell, "None", "none", EmptyCell)
    /\ UNCHANGED <<now, pendingFile, validationExists, validationFile,
                   otp_expires_at, verified, checked>>

----------------------------------------------------------------------------
\* main.py: the sign-up form

\* "Send OTP" run as one step: check_uniqueness, then initiate when nothing is reported
signup_request_form(form, otp, d) ==
    IF check_uniqueness(form.email, form.user_id, form.contact_number,
                        users, validationExists, validationFile).errors = {}
    THEN /\ initiate_signup_and_send_otp(form, otp, d)
         /\ UNCHANGED checked
    ELSE /\ ret' = Ret("signup", form.email, EmptyCell, EmptyCell, "errors", "none", EmptyCell)
         /\ UNCHANGED <<now, pendingFile, validationExists, validationFile, users,
                        otp_expires_at, verified, checked>>

\* "Send OTP" in a session running beside others: first the uniqueness check ...
signup_check(form) ==
    /\ Cardinality(checked) < MaxInflight
    /\ form \notin checked
    /\ IF check_uniqueness(form.email, form.user_id, form.contact_number,
                           users, validationExists, validationFile).errors = {}
       THEN checked' = checked \cup {form}
       ELSE UNCHANGED checked
    /\ ret' = Ret("check", form.email, EmptyCell, EmptyCell,
                  IF checked' = checked THEN "errors" ELSE "passed", "none", EmptyCell)
    /\ UNCHANGED <<now, pendingFile, validationExists, validationFile, users,
                   otp_expires_at, verified>>

\* ... then, after whatever other sessions did meanwhile, the initiate
signup_initiate(form, otp, d) ==
    /\ form \in checked
    /\ checked' = checked \ {form}
    /\ initiate_signup_and_send_otp(form, otp, d)

----------------------------------------------------------------------------
\* The clock moves on
Tick ==
    /\ \E t \in Clock : t > now /\ now' = t
    /\ ret' = Ret("tick", "", EmptyCell, EmptyCell, "None", "none", EmptyCell)
    /\ UNCHANGED <<pendingFile, validationExists, validationFile, users,
                   otp_expires_at, verified, checked>>
    /\ UNCHANGED dbvars

Init ==
    /\ now \in {t \in Clock : t < OtpTtl}
    /\ pendingFile = <<>>
    /\ validationExists = FALSE
    /\ validationFile = <<>>
    /\ users = <<>>
    /\ otp_expires_at = [e \in Emails |-> EmptyCell]
    /\ verified = [e \in Emails |-> EmptyCell]
    /\ checked = {}
    /\ requests = {}
    /\ password_resets = {}
    /\ token_expires_at = [t \in Tokens |-> EmptyCell]
    /\ sessions = [s \in Sessions |-> Idle]
    /\ ret = Ret("init", "", EmptyCell, EmptyCell, "None", "none", EmptyCell)

Submit == \E form \in Forms, otp \in OtpDraws, d \in DispatchOutcomes :
              signup_request_form(form, otp, d) /\ UNCHANGED dbvars
SubmitCheck == \E form \in Forms : signup_check(form) /\ UNCHANGED dbvars
SubmitInitiate == \E form \in Forms, otp \in OtpDraws, d \in DispatchOutcomes :
                      signup_initiate(form, otp, d) /\ UNCHANGED dbvars
Resend == \E email \in Emails, otp \in OtpDraws, d \in DispatchOutcomes :
              regenerate_and_resend_otp(email, otp, d) /\ UNCHANGED dbvars
Verify == \E email \in Emails, otp \in OtpDraws, d \in DispatchOutcomes :
              verify_otp_and_finalize_request(email, otp, d) /\ UNCHANGED dbvars
Approve == \E email \in Emails : approve_request(email) /\ UNCHANGED dbvars
Reject == \E email \in Emails, d \in DispatchOutcomes :
              reject_request(email, d) /\ UNCHANGED dbvars
HandleCorrupted == \E email \in Emails, d \in DispatchOutcomes :
                       handle_corrupted_request(email, d) /\ UNCHANGED dbvars
Migrate == \E row \in CsvUsers : migrate_users(row) /\ UNCHANGED dbvars

\* every handler runs to its end before the next starts
Next == Submit \/ Resend \/ Verify \/ Approve \/ Reject \/ HandleCorrupted
        \/ Migrate \/ Tick

Spec == Init /\ [][Next]_vars

\* sessions run side by side: a submission's check and its initiate are two steps
NextConc == SubmitCheck \/ SubmitInitiate \/ Resend \/ Verify \/ Approve \/ Reject
            \/ HandleCorrupted \/ Migrate \/ Tick

SpecConc == Init /\ [][NextConc]_vars

----------------------------------------------------------------------------
\* database.py: the requests table

\* CHECK(status IN (...)) of the requests table
RequestStatuses == {"pending_otp", "pending_approval", "approved", "rejected"}

\* the statuses a caller may pass: the table's own and the one the request
\* files use, which the CHECK refuses
StatusArgs == RequestStatuses \cup {"awaiting_otp"}

\* the request_data a caller may pass
RequestRows ==
    {[email |-> e, user_id |-> u, contact_number |-> c, status |-> st,
      otp |-> IF st \in {"pending_otp", "awaiting_otp"} THEN <<OtpLow>> ELSE EmptyCell,
      otp_expires_at |-> IF st \in {"pending_otp", "awaiting_otp"}
                         THEN Strftime(ExpiresAt(0)) ELSE EmptyCell] :
        e \in Emails, u \in {"u1", "u2"}, c \in {"c1", "c2"}, st \in StatusArgs}

\* the rows INSERT OR REPLACE deletes: those that share a UNIQUE column with the new row
Conflicting(rows, new) ==
    {r \in rows : \/ r.email = new.email
                  \/ r.user_id = new.user_id
                  \/ r.contact_number = new.contact_number}

\* the requests table after UPDATE requests SET status = ? WHERE email = ?
StatusUpdated(rows, email, new_status) ==
    {IF r.email = email THEN [r EXCEPT !.status = new_status] ELSE r : r \in rows}

create_pending_request(request_data) ==
    /\ IF request_data.status \in RequestStatuses
       THEN /\ requests' = (requests \ Conflicting(requests, request_data))
                                \cup {request_data}
            /\ ret' = Ret("create_pending_request", request_data.email, EmptyCell,
                          EmptyCell, "None", "none", EmptyCell)
       ELSE /\ UNCHANGED requests
            /\ ret' = Ret("create_pending_request", request_data.email, EmptyCell,
                          EmptyCell, "IntegrityError", "none", EmptyCell)
    /\ UNCHANGED <<now, users, password_resets, token_expires_at, sessions>>
    /\ UNCHANGED csvvars

update_request_status(email, new_status) ==
    /\ IF new_status \in RequestStatuses \/ \A r \in requests : r.email # email
       THEN /\ requests' = StatusUpdated(requests, email, new_status)
            /\ ret' = Ret("update_request_status", email, EmptyCell, EmptyCell,
                          "None", "none", EmptyCell)
       ELSE /\ UNCHANGED requests
            /\ ret' = Ret("update_request_status", email, EmptyCell, EmptyCell,
                          "IntegrityError", "none", EmptyCell)
    /\ UNCHANGED <<now, users, password_resets, token_expires_at, sessions>>
    /\ UNCHANGED csvvars

\* the requests table after UPDATE requests SET otp = ?, otp_expires_at = ? WHERE email = ?
OtpUpdated(rows, email, otp, expires_at) ==
    {IF r.email = email
     THEN [r EXCEPT !.otp = <<otp>>, !.otp_expires_at = Strftime(expires_at)]
     ELSE r : r \in rows}

update_request_otp(email, otp, expires_at) ==
    /\ requests' = OtpUpdated(requests, email, otp, expires_at)
    /\ ret' = Ret("update_request_otp", email, <<otp>>, EmptyCell, "None", "none",
                  Strftime(expires_at))
    /\ UNCHANGED <<now, users, password_resets, token_expires_at, sessions>>
    /\ UNCHANGED csvvars

CreatePendingRequest == \E request_data \in RequestRows : create_pending_request(request_data)
UpdateRequestOtp == \E email \in Emails, otp \in OtpDraws :
                        update_request_otp(email, otp, ExpiresAt(now))
UpdateRequestStatus == \E email \in Emails, new_status \in StatusArgs :
                           update_request_status(email, new_status)

\* the callers of the requests table, each call one transaction
NextDb == CreatePendingRequest \/ UpdateRequestStatus \/ UpdateRequestOtp

SpecDb == Init /\ [][NextDb]_vars

----------------------------------------------------------------------------
\* auth/password_reset_utils.py and the forgot-password form of main.py

\* (mutant) the lookup answers with a row for every email
FindUserAlways(us, email) == <<[email |-> email]>>

\* database.find_user_by_email: the user's row in a cell, <<>> for None
find_user_by_email(us, email) ==
    IF \E i \in 1..Len(us) : us[i].email = email
    THEN <<us[CHOOSE i \in 1..Len(us) : us[i].email = email]>>
    ELSE EmptyCell

\* (mutant) the earlier tokens of the email are left as they are
InvalidateNothing(rows, email) == rows

\* (mutant) the UPDATE flips the flag of every token of the email
InvalidateToggles(rows, email) ==
    {IF r.email = email THEN [r EXCEPT !.used = ~r.used] ELSE r : r \in rows}

\* UPDATE password_resets SET used = True WHERE email = ? AND used = False
Invalidate(rows, email) ==
    {IF r.email = email /\ ~r.used THEN [r EXCEPT !.used = TRUE] ELSE r : r \in rows}

\* whether the transaction of generate_reset_token commits: the database
\* works and the token column, which is UNIQUE, does not hold the token yet
GenerateCommits(rows, token, db) ==
    db = "ok" /\ \A r \in rows : r.token # token

\* what generate_reset_token returns: <<token>>, or <<>> for None
GeneratedToken(rows, us, email, token, db) ==
    IF find_user_by_email(us, email) = EmptyCell THEN EmptyCell
    ELSE IF GenerateCommits(rows, token, db) THEN <<token>>
    ELSE EmptyCell

\* the password_resets table generate_reset_token leaves at time t
ResetsAfterGenerate(rows, us, email, token, db, t) ==
    IF GeneratedToken(rows, us, email, token, db) = EmptyCell THEN rows
    ELSE Invalidate(rows, email)
         \cup {[email |-> email, token |-> token,
                expires_at |-> Strftime(t + ResetTtl), used |-> FALSE]}

ForgotMessage == "If an account with that email exists, a password reset link has been sent."

\* the exceptions the forgot-password form catches around the dispatch
ForgotCaught == {"EmailConfigurationError", "EmailSendingError"}

\* (mutant) the form does not catch what the dispatch raises
ForgotShownUncaught(token_cell, d) ==
    IF token_cell # EmptyCell /\ d # "sent" THEN d ELSE ForgotMessage

\* what the forgot-password form shows: the message, unless the dispatch of
\* the token raises something the form does not catch
ForgotShown(token_cell, d) ==
    IF token_cell # EmptyCell /\ d # "sent" /\ d \notin ForgotCaught THEN d
    ELSE ForgotMessage

\* "Send Reset Link": generate a token, mail it when there is one, show the message
forgot_password_form(forgot_email, token, db, d) ==
    LET token_cell == GeneratedToken(password_resets, users, forgot_email, token, db) IN
    /\ password_resets' = ResetsAfterGenerate(password_resets, users, forgot_email,
                                              token, db, now)
    /\ token_expires_at' = IF token_cell = EmptyCell THEN token_expires_at
                           ELSE [token_expires_at EXCEPT ![token] = <<now + ResetTtl>>]
    /\ ret' = Ret("forgot", forgot_email, token_cell, EmptyCell,
                  ForgotShown(token_cell, d),
                  IF token_cell = EmptyCell THEN "none" ELSE d, EmptyCell)
    /\ UNCHANGED <<now, users, requests, sessions>>
    /\ UNCHANGED csvvars

\* what verify_reset_token returns at time t: <<email>>, or <<>> for None
verify_reset_token(rows, token, t) ==
    IF \E r \in rows : r.token = token
    THEN LET result == CHOOSE r \in rows : r.token = token IN
         IF ~result.used /\ t <= Strptime(result.expires_at)
         THEN <<result.email>> ELSE EmptyCell
    ELSE EmptyCell

\* the page opened with ?token=...: the token is verified and nothing is written
reset_page(token) ==
    /\ ret' = Ret("verify_reset_token", "", <<token>>, EmptyCell,
                  verify_reset_token(password_resets, token, now), "none", EmptyCell)
    /\ UNCHANGED <<now, users>>
    /\ UNCHANGED dbvars
    /\ UNCHANGED csvvars

\* whether reset_password goes through: the token verifies and the transaction commits
ResetCommits(rows, token, db, t) ==
    verify_reset_token(rows, token, t) # EmptyCell /\ db = "ok"

\* UPDATE users SET password = ? WHERE email = ?
WithPassword(us, email, hashed_password) ==
    [i \in 1..Len(us) |->
        IF us[i].email = email THEN [us[i] EXCEPT !.password = hashed_password] ELSE us[i]]

\* (mutant) the token is not marked
MarkUsedNever(rows, token) == rows

\* UPDATE password_resets SET used = True WHERE token = ?
MarkUsed(rows, token) ==
    {IF r.token = token THEN [r EXCEPT !.used = TRUE] ELSE r : r \in rows}

\* (mutant) the password update survives a transaction that fails afterwards
UsersAfterResetNoRollback(us, rows, token, new_password, db, t) ==
    IF verify_reset_token(rows, token, t) # EmptyCell
    THEN WithPassword(us, verify_reset_token(rows, token, t)[1], hash_password(new_password))
    ELSE us

\* the users table reset_password leaves
UsersAfterReset(us, rows, token, new_password, db, t) ==
    IF ResetCommits(rows, token, db, t)
    THEN WithPassword(us, verify_reset_token(rows, token, t)[1], hash_password(new_password))
    ELSE us

\* the password_resets table reset_password leaves
ResetsAfterReset(rows, token, db, t) ==
    IF ResetCommits(rows, token, db, t) THEN MarkUsed(rows, token) ELSE rows

reset_password(token, new_password, db) ==
    /\ users' = UsersAfterReset(users, password_resets, token, new_password, db, now)
    /\ password_resets' = ResetsAfterReset(password_resets, token, db, now)
    /\ ret' = Ret("reset_password", "", <<token>>, <<hash_password(new_password)>>,
                  IF ResetCommits(password_resets, token, db, now) THEN "True" ELSE "False",
                  "none", EmptyCell)
    /\ UNCHANGED <<now, requests, token_expires_at, sessions>>
    /\ UNCHANGED csvvars

TickReset ==
    /\ \E t \in ResetClock : t > now /\ now' = t
    /\ ret' = Ret("tick", "", EmptyCell, EmptyCell, "None", "none", EmptyCell)
    /\ UNCHANGED users
    /\ UNCHANGED dbvars
    /\ UNCHANGED csvvars

\* the database an earlier version set up and migrated
InitReset ==
    /\ now \in {t \in ResetClock : t < ResetTtl}
    /\ pendingFile = <<>>
    /\ validationExists = FALSE
    /\ validationFile = <<>>
    /\ users = LegacyUsers
    /\ otp_expires_at = [e \in Emails |-> EmptyCell]
    /\ verified = [e \in Emails |-> EmptyCell]
    /\ checked = {}
    /\ requests = {}
    /\ password_resets = {}
    /\ token_expires_at = [t \in Tokens |-> EmptyCell]
    /\ sessions = [s \in Sessions |-> Idle]
    /\ ret = Ret("init", "", EmptyCell, EmptyCell, "None", "none", EmptyCell)

Forgot == \E email \in Emails, token \in Tokens, db \in DbOutcomes, d \in DispatchOutcomes :
              forgot_password_form(email, token, db, d)
ResetPage == \E token \in Tokens : reset_page(token)
ResetPassword == \E token \in Tokens, new_password \in Passwords, db \in DbOutcomes :
                     reset_password(token, new_password, db)

NextReset == Forgot \/ ResetPage \/ ResetPassword \/ Migrate \/ TickReset

SpecReset == InitReset /\ [][NextReset]_vars

----------------------------------------------------------------------------
\* generate_reset_token statement by statement, in sessions that run side by
\* side: each call has its own connection, and SQLite keeps a transaction's
\* writes in that connection until the commit

\* whether the session may write: no other connection holds the write lock,
\* which a connection takes at its first write and keeps until commit or rollback
LockFree(ss, s) == \A o \in Sessions \ {s} : ss[o].pc \notin {"updated", "inserted"}

\* (mutant) the UPDATE is committed on its own, before the INSERT
CommittedAfterInvalidateAutocommit(rows, email) == Invalidate(rows, email)

\* the table the other connections read after the UPDATE inside `with conn`:
\* the committed rows, unchanged
CommittedAfterInvalidate(rows, email) == rows

\* the call ends with None: the transaction, if any, is rolled back
GenerateNone(s, email) ==
    /\ sessions' = [sessions EXCEPT ![s] = Idle]
    /\ ret' = Ret("generate_reset_token", email, EmptyCell, EmptyCell, "None", "none",
                  EmptyCell)

\* user = database.find_user_by_email(email); if not user: return None
generate_find(s, email) ==
    /\ sessions[s].pc = "idle"
    /\ IF find_user_by_email(users, email) = EmptyCell
       THEN GenerateNone(s, email)
       ELSE /\ sessions' = [sessions EXCEPT ![s] = [Idle EXCEPT !.pc = "found",
                                                                !.email = email]]
            /\ ret' = Ret("find_user_by_email", email, EmptyCell, EmptyCell, "user",
                          "none", EmptyCell)
    /\ UNCHANGED <<now, users, requests, password_resets, token_expires_at>>
    /\ UNCHANGED csvvars

\* the token and the expiry are drawn, the transaction begins with the UPDATE;
\* while another connection holds the write lock the UPDATE can only time out
generate_invalidate(s, token, db) ==
    /\ sessions[s].pc = "found"
    /\ LockFree(sessions, s) \/ db = "OperationalError"
    /\ IF db = "ok"
       THEN /\ sessions' = [sessions EXCEPT ![s] =
                               [pc |-> "updated", email |-> sessions[s].email,
                                token |-> token,
                                rows |-> Invalidate(password_resets, sessions[s].email),
                                expires_at |-> <<now + ResetTtl>>]]
            /\ password_resets' = CommittedAfterInvalidate(password_resets, sessions[s].email)
            /\ ret' = Ret("UPDATE password_resets", sessions[s].email, <<token>>,
                          EmptyCell, "in transaction", "none", EmptyCell)
       ELSE /\ GenerateNone(s, sessions[s].email)
            /\ UNCHANGED password_resets
    /\ UNCHANGED <<now, users, requests, token_expires_at>>
    /\ UNCHANGED csvvars

\* the INSERT, in the same transaction; token is UNIQUE
generate_insert(s, db) ==
    /\ sessions[s].pc = "updated"
    /\ IF db = "ok" /\ \A r \in sessions[s].rows : r.token # sessions[s].token
       THEN /\ sessions' = [sessions EXCEPT ![s].pc = "inserted",
                               ![s].rows = @ \cup
                                   {[email |-> sessions[s].email,
                                     token |-> sessions[s].token,
                                     expires_at |-> Strftime(sessions[s].expires_at[1]),
                                     used |-> FALSE]}]
            /\ ret' = Ret("INSERT INTO password_resets", sessions[s].email,
                          <<sessions[s].token>>, EmptyCell, "in transaction", "none",
                          EmptyCell)
       ELSE GenerateNone(s, sessions[s].email)
    /\ UNCHANGED <<now, users, requests, password_resets, token_expires_at>>
    /\ UNCHANGED csvvars

\* conn.commit(): the connection's rows become the table; return token
generate_commit(s, db) ==
    /\ sessions[s].pc = "inserted"
    /\ IF db = "ok"
       THEN /\ password_resets' = sessions[s].rows
            /\ token_expires_at' = [token_expires_at EXCEPT ![sessions[s].token] =
                                       sessions[s].expires_at]
            /\ sessions' = [sessions EXCEPT ![s] = Idle]
            /\ ret' = Ret("generate_reset_token", sessions[s].email,
                          <<sessions[s].token>>, EmptyCell, "token", "none", EmptyCell)
       ELSE /\ GenerateNone(s, sessions[s].email)
            /\ UNCHANGED <<password_resets, token_expires_at>>
    /\ UNCHANGED <<now, users, requests>>
    /\ UNCHANGED csvvars

GenerateFind == \E s \in Sessions, email \in Emails : generate_find(s, email)
GenerateInvalidate == \E s \in Sessions, token \in Tokens, db \in DbOutcomes :
                          generate_invalidate(s, token, db)
GenerateInsert == \E s \in Sessions, db \in DbOutcomes : generate_insert(s, db)
GenerateCommit == \E s \in Sessions, db \in DbOutcomes : generate_commit(s, db)

NextResetConc == GenerateFind \/ GenerateInvalidate \/ GenerateInsert \/ GenerateCommit
                 \/ ResetPage \/ TickReset

SpecResetConc == InitReset /\ [][NextResetConc]_vars

----------------------------------------------------------------------------
\* reset_password in two steps, in sessions that run side by side: the
\* verification on one connection, then the two UPDATEs in one transaction

\* email = verify_reset_token(token); if not email: return False
consume_verify(s, token) ==
    /\ sessions[s].pc = "idle"
    /\ IF verify_reset_token(password_resets, token, now) = EmptyCell
       THEN /\ UNCHANGED sessions
            /\ ret' = Ret("reset_password", "", <<token>>, EmptyCell, "False", "none",
                          EmptyCell)
       ELSE /\ sessions' = [sessions EXCEPT ![s] =
                               [Idle EXCEPT !.pc = "verified", !.token = token,
                                   !.email = verify_reset_token(password_resets, token, now)[1]]]
            /\ ret' = Ret("verify_reset_token", "", <<token>>, EmptyCell,
                          verify_reset_token(password_resets, token, now), "none",
                          EmptyCell)
    /\ UNCHANGED <<now, users, requests, password_resets, token_expires_at>>
    /\ UNCHANGED csvvars

\* the transaction: both UPDATEs name the email and the token found before,
\* neither asks whether the token is still unused
consume_update(s, new_password, db) ==
    /\ sessions[s].pc = "verified"
    /\ users' = IF db = "ok"
                THEN WithPassword(users, sessions[s].email, hash_password(new_password))
                ELSE users
    /\ password_resets' = IF db = "ok" THEN MarkUsed(password_resets, sessions[s].token)
                          ELSE password_resets
    /\ sessions' = [sessions EXCEPT ![s] = Idle]
    /\ ret' = Ret("reset_password", "", <<sessions[s].token>>,
                  <<hash_password(new_password)>>,
                  IF db = "ok" THEN "True" ELSE "False", "none", EmptyCell)
    /\ UNCHANGED <<now, requests, token_expires_at>>
    /\ UNCHANGED csvvars

\* a reset link has been issued to the user and not been used yet
InitConsume ==
    /\ now \in {t \in ResetClock : t < ResetTtl}
    /\ pendingFile = <<>>
    /\ validationExists = FALSE
    /\ validationFile = <<>>
    /\ users = LegacyUsers
    /\ otp_expires_at = [e \in Emails |-> EmptyCell]
    /\ verified = [e \in Emails |-> EmptyCell]
    /\ checked = {}
    /\ requests = {}
    /\ \E token \in Tokens :
          /\ password_resets = {[email |-> LegacyUsers[1].email, token |-> token,
                                 expires_at |-> Strftime(ResetTtl), used |-> FALSE]}
          /\ token_expires_at = [t \in Tokens |->
                                    IF t = token THEN <<ResetTtl>> ELSE EmptyCell]
    /\ sessions = [s \in Sessions |-> Idle]
    /\ ret = Ret("init", "", EmptyCell, EmptyCell, "None", "none", EmptyCell)

ConsumeVerify == \E s \in Sessions, token \in Tokens : consume_verify(s, token)
ConsumeUpdate == \E s \in Sessions, new_password \in Passwords, db \in DbOutcomes :
                     consume_update(s, new_password, db)

NextConsume == ConsumeVerify \/ ConsumeUpdate \/ TickReset

SpecConsume == InitConsume /\ [][NextConsume]_vars

----------------------------------------------------------------------------
\* The validation file under a visitor's verify and the administrator's
\* decisions running side by side: each reads the file and later rewrites it

\* the dataframe a call holds between its read and its to_csv
Held(s) == CHOOSE df \in sessions[s].rows : TRUE

\* verify up to validation_df = pd.read_csv(PENDING_REQUESTS_VALIDATION_FILE):
\* the code is checked, the row leaves the pending file, the validation file
\* is created when absent and read, the record is concatenated in memory
verify_read(s, email, otp) ==
    /\ sessions[s].pc = "idle"
    /\ Len(validationFile) < MaxValidationRows
    /\ pendingFile' = PendingAfterVerify(pendingFile, email, otp, now)
    /\ IF VerifyAccepts(pendingFile, email, otp, now)
       THEN /\ validationExists' = TRUE
            /\ sessions' = [sessions EXCEPT ![s] =
                  [Idle EXCEPT !.pc = "verify_read", !.email = email,
                     !.rows = {Append(Rewritten(validationFile),
                                  Finalize(Rewritten(pendingFile)[AwaitingIndex(pendingFile,
                                                                               email)]))}]]
            /\ otp_expires_at' = [otp_expires_at EXCEPT ![email] = EmptyCell]
            /\ verified' = [verified EXCEPT ![email] = <<otp>>]
            /\ ret' = Ret("verify_read", email, <<otp>>, EmptyCell, "None", "none", EmptyCell)
       ELSE /\ ret' = Ret("verify", email, <<otp>>, EmptyCell, "False", "none", EmptyCell)
            /\ UNCHANGED <<validationExists, sessions, otp_expires_at, verified>>
    /\ UNCHANGED <<now, validationFile, users, checked, requests, password_resets,
                   token_expires_at>>

\* updated_validation_df.to_csv(...), then the notice to the administrator
verify_write(s, d) ==
    /\ sessions[s].pc = "verify_read"
    /\ validationFile' = Held(s)
    /\ sessions' = [sessions EXCEPT ![s] = Idle]
    /\ ret' = Ret("verify", sessions[s].email, EmptyCell, EmptyCell,
                  IF d = "sent" THEN "True" ELSE d, d, EmptyCell)
    /\ UNCHANGED <<now, pendingFile, validationExists, users, otp_expires_at, verified,
                   checked, requests, password_resets, token_expires_at>>

\* reject up to validation_df[validation_df['email'] != request_email]
reject_read(s, request_email) ==
    /\ sessions[s].pc = "idle"
    /\ IF ~validationExists
       THEN /\ ret' = Ret("reject", request_email, EmptyCell, EmptyCell, "KeyError",
                          "none", EmptyCell)
            /\ UNCHANGED sessions
       ELSE IF RequestByEmail(validationFile, request_email) = <<>>
       THEN /\ ret' = Ret("reject", request_email, EmptyCell, EmptyCell,
                          "False: Request not found.", "none", EmptyCell)
            /\ UNCHANGED sessions
       ELSE /\ sessions' = [sessions EXCEPT ![s] =
                  [Idle EXCEPT !.pc = "reject_read", !.email = request_email,
                     !.rows = {WithoutEmail(RewrittenContactStr(validationFile),
                                            request_email)}]]
            /\ ret' = Ret("reject_read", request_email, EmptyCell, EmptyCell, "None",
                          "none", EmptyCell)
    /\ UNCHANGED <<now, users, requests, password_resets, token_expires_at>>
    /\ UNCHANGED csvvars

\* _save_validation_requests(validation_df), then the rejection notice
reject_write(s, d) ==
    /\ sessions[s].pc = "reject_read"
    /\ validationFile' = Held(s)
    /\ sessions' = [sessions EXCEPT ![s] = Idle]
    /\ ret' = Ret("reject", sessions[s].email, EmptyCell, EmptyCell,
                  IF d = "sent" THEN "True" ELSE d, d, EmptyCell)
    /\ UNCHANGED <<now, pendingFile, validationExists, users, otp_expires_at, verified,
                   checked, requests, password_resets, token_expires_at>>

DecideSubmit == \E form \in Forms :
                    signup_request_form(form, OtpLow, "sent") /\ UNCHANGED dbvars
VerifyRead == \E s \in Sessions, email \in Emails : verify_read(s, email, OtpLow)
VerifyWrite == \E s \in Sessions, d \in DispatchOutcomes : verify_write(s, d)
RejectRead == \E s \in Sessions, email \in Emails : reject_read(s, email)
RejectWrite == \E s \in Sessions, d \in DispatchOutcomes : reject_write(s, d)

NextDecide == DecideSubmit \/ VerifyRead \/ VerifyWrite \/ RejectRead \/ RejectWrite
              \/ Approve

SpecDecide == Init /\ [][NextDecide]_vars

----------------------------------------------------------------------------
\* check_uniqueness over request files that hold numbers as well as text

\* forms whose user id and contact number are digits only, or not
UniqForms ==
    { [email |-> "a@x.com", user_id |-> "07", contact_number |-> "07", password |-> "pw1"],
      [email |-> "b@x.com", user_id |-> "u2", contact_number |-> "c2", password |-> "pw1"],
      [email |-> "b@x.com", user_id |-> "8", contact_number |-> "8", password |-> "pw1"] }

\* the values a later visitor may submit
CheckEmails == Emails \cup {"n@x.com"}
CheckUserIds == {"7", "07", "u1", "u9"}
CheckContacts == {"7", "07", "c2", "c9"}

\* one call of check_uniqueness: it reads the stores and writes nothing
uniqueness_check(email, user_id, contact_number) ==
    /\ ret' = Ret("check_uniqueness", email, <<user_id>>, <<contact_number>>,
                  check_uniqueness(email, user_id, contact_number,
                                   users, validationExists, validationFile),
                  "none", EmptyCell)
    /\ UNCHANGED <<now, users>>
    /\ UNCHANGED csvvars
    /\ UNCHANGED dbvars

UniqSubmit == \E form \in UniqForms :
                  signup_request_form(form, OtpLow, "sent") /\ UNCHANGED dbvars
UniqVerify == \E email \in Emails :
                  verify_otp_and_finalize_request(email, OtpLow, "sent") /\ UNCHANGED dbvars
UniqReject == \E email \in Emails : reject_request(email, "sent") /\ UNCHANGED dbvars
UniqCheck == \E email \in CheckEmails, user_id \in CheckUserIds,
                contact_number \in CheckContacts :
                 uniqueness_check(email, user_id, contact_number)

NextUniq == UniqSubmit \/ UniqVerify \/ UniqReject \/ UniqCheck \/ Migrate

SpecUniq == Init /\ [][NextUniq]_vars

----------------------------------------------------------------------------
\* The users beside the requests: sign-up, verification, the administrator's
\* decisions and direct registration

\* two visitors who chose the same user id, and one who chose another
UserForms ==
    { [email |-> "a@x.com", user_id |-> "u1", contact_number |-> "c1", password |-> "pw1"],
      [email |-> "b@x.com", user_id |-> "u1", contact_number |-> "c2", password |-> "pw1"],
      [email |-> "b@x.com", user_id |-> "u2", contact_number |-> "c2", password |-> "pw1"] }

\* the user ids a direct registration may name
RegisterUserIds == {"u1", "u3"}

\* the users table is empty or holds what an earlier migration left
InitUsers ==
    /\ now \in {t \in Clock : t < OtpTtl}
    /\ pendingFile = <<>>
    /\ validationExists = FALSE
    /\ validationFile = <<>>
    /\ users \in {<<>>, LegacyUsers}
    /\ otp_expires_at = [e \in Emails |-> EmptyCell]
    /\ verified = [e \in Emails |-> EmptyCell]
    /\ checked = {}
    /\ requests = {}
    /\ password_resets = {}
    /\ token_expires_at = [t \in Tokens |-> EmptyCell]
    /\ sessions = [s \in Sessions |-> Idle]
    /\ ret = Ret("init", "", EmptyCell, EmptyCell, "None", "none", EmptyCell)

UsersSubmit == \E form \in UserForms :
                   signup_request_form(form, OtpLow, "sent") /\ UNCHANGED dbvars
Register == \E email \in Emails, username \in RegisterUserIds, password \in Passwords :
                register_user(email, username, password) /\ UNCHANGED dbvars

UsersHandleCorrupted == \E email \in Emails :
                            handle_corrupted_request(email, "sent") /\ UNCHANGED dbvars

NextUsers == UsersSubmit \/ UniqVerify \/ Approve \/ UniqReject \/ Register
             \/ UsersHandleCorrupted

SpecUsers == InitUsers /\ [][NextUsers]_vars

----------------------------------------------------------------------------
\* The pure functions: utils/validator.validate_password, utils.hashing

\* the kinds of character a password is made of: a letter, a decimal digit
\* (str.isdecimal), a digit that is no decimal digit (the superscript two)
CharClasses == {"letter", "decimal", "superscript"}

\* str.isdigit: decimal digits and the other digit characters
isdigit(c) == c \in {"decimal", "superscript"}

PasswordTexts == UNION {[1..n -> CharClasses] : n \in 0..MaxPasswordLen}

\* (mutant) the length has to exceed the minimum
ValidatePasswordLonger(password) ==
    Len(password) > MinPasswordLen /\ \E i \in 1..Len(password) : isdigit(password[i])

\* len(password) >= 8 and any(c.isdigit() for c in password)
validate_password(password) ==
    Len(password) >= MinPasswordLen /\ \E i \in 1..Len(password) : isdigit(password[i])

\* the plaintexts hashed and verified; the empty one is only ever verified
Plaintexts == Passwords \cup {"pw0"}

ValidatePassword ==
    /\ ret.op = "init"
    /\ \E password \in PasswordTexts :
          ret' = Ret("validate_password", "", <<password>>, EmptyCell,
                     validate_password(password), "none", EmptyCell)
    /\ UNCHANGED <<now, users>>
    /\ UNCHANGED csvvars
    /\ UNCHANGED dbvars

\* hash_password(p), with the salt it drew
HashPassword ==
    /\ ret.op = "init"
    /\ \E p \in Plaintexts, salt \in Salts :
          ret' = Ret("hash_password", "", <<p>>, EmptyCell, salted_hash(p, salt),
                     "none", EmptyCell)
    /\ UNCHANGED <<now, users>>
    /\ UNCHANGED csvvars
    /\ UNCHANGED dbvars

\* verify_password(p2, hashed) for a hash produced for some p, or a malformed one
VerifyPassword ==
    /\ ret.op = "init"
    /\ \E p2 \in Plaintexts \cup {""},
          hashed \in {salted_hash(p, salt) : p \in Plaintexts, salt \in Salts}
                     \cup {Malformed} :
          ret' = Ret("verify_password", "", <<p2>>, <<hashed>>,
                     verify_password(p2, hashed), "none", EmptyCell)
    /\ UNCHANGED <<now, users>>
    /\ UNCHANGED csvvars
    /\ UNCHANGED dbvars

\* one call of one pure function: what a call returns depends on no earlier call
NextPure == ValidatePassword \/ HashPassword \/ VerifyPassword

SpecPure == Init /\ [][NextPure]_vars

----------------------------------------------------------------------------
\* Signing in beside sign-up, approval and password reset

\* auth_utils.authenticate_user: the user is looked up by email and the
\* password is verified against the stored hash; False when there is no user
authenticate_user(us, email, password) ==
    /\ find_user_by_email(us, email) # EmptyCell
    /\ verify_password(password, find_user_by_email(us, email)[1].password)

\* the login form: one call of authenticate_user, nothing is written
login_form(email, password) ==
    /\ ret' = Ret("authenticate", email, <<password>>, EmptyCell,
                  authenticate_user(users, email, password), "none", EmptyCell)
    /\ UNCHANGED <<now, users>>
    /\ UNCHANGED csvvars
    /\ UNCHANGED dbvars

AuthSubmit == \E form \in Forms :
                  signup_request_form(form, OtpLow, "sent") /\ UNCHANGED dbvars
Login == \E email \in Emails, password \in Plaintexts : login_form(email, password)

NextAuth == AuthSubmit \/ UniqVerify \/ Approve \/ Forgot \/ ResetPage \/ ResetPassword
            \/ Login \/ TickReset

SpecAuth == InitUsers /\ [][NextAuth]_vars

----------------------------------------------------------------------------
\* Properties

\* the email has a request awaiting its OTP (pending_otp)
InPendingOtp(df, e) == \E r \in Range(df) : r.email = e /\ r.status = "awaiting_otp"

\* the email has a request awaiting the administrator (pending_approval)
InPendingApproval(vf, e) == \E r \in Range(vf) : r.email = e

\* the email's awaiting request stores code c and has not expired at time t
StoresLiveCode(df, e, c, t) ==
    \E r \in Range(df) : /\ r.email = e /\ r.status = "awaiting_otp"
                         /\ r.otp = <<c>> /\ t <= Strptime(r.otp_expires_at)

\* the step is the call verify(e, c)
IsVerify(e, c) == ret'.op = "verify" /\ ret'.email = e /\ ret'.otp = <<c>>

\* after the step the email's request is pending_approval, code and expiry
\* cleared, and no longer pending_otp
MovedToApproval(e) ==
    /\ \E r \in Range(validationFile') : r.email = e /\ r.status = "pending"
    /\ \A r \in Range(validationFile') :
          r.email = e => r.otp = EmptyCell /\ r.otp_expires_at = EmptyCell
    /\ ~InPendingOtp(pendingFile', e)

\* C1 (as claimed): verify with the stored code, not later than the stored
\* expiry, returns true and moves the request to pending_approval with its
\* code and expiry cleared.
C1_VerifyReturnsTrue ==
    [][\A e \in Emails, c \in OtpDraws :
          (StoresLiveCode(pendingFile, e, c, now) /\ IsVerify(e, c))
          => (ret'.result = "True" /\ MovedToApproval(e))]_vars

\* C1 (amended): verify with the stored code, not later than the stored expiry,
\* moves the request to pending_approval with its code and expiry cleared; it
\* returns true when the admin notification is sent and raises the dispatch
\* error otherwise.
C1_VerifyMovesRequest ==
    [][\A e \in Emails, c \in OtpDraws :
          (StoresLiveCode(pendingFile, e, c, now) /\ IsVerify(e, c))
          => /\ ret'.mail \in DispatchOutcomes
             /\ ret'.result = (IF ret'.mail = "sent" THEN "True" ELSE ret'.mail)
             /\ MovedToApproval(e)]_vars

\* C1 witness: a verify returned true and the request sits in the validation
\* file with empty code and expiry.
C1_Witness ==
    /\ ret.op = "verify" /\ ret.result = "True"
    /\ \E r \in Range(validationFile) :
          r.email = ret.email /\ r.status = "pending" /\ r.otp = EmptyCell
    /\ ~InPendingOtp(pendingFile, ret.email)

\* C2: a verify that returns false (no awaiting request, another code, or past
\* the expiry) leaves the request files and the users as they were; and each of
\* the three cases does return false.
C2_FailedVerifyChangesNothing ==
    [][\A e \in Emails, c \in OtpDraws :
          IsVerify(e, c) =>
             /\ ret'.result = "False" =>
                   UNCHANGED <<pendingFile, validationExists, validationFile, users>>
             /\ ~StoresLiveCode(pendingFile, e, c, now) => ret'.result = "False"]_vars

\* C2 witness: verify returned false for an email that has an awaiting request.
C2_Witness ==
    /\ ret.op = "verify" /\ ret.result = "False"
    /\ InPendingOtp(pendingFile, ret.email)

IsResend(e) == ret'.op = "resend" /\ ret'.email = e

\* rows of other emails are the same, in the same order, before and after the step
OthersUnchanged(e) ==
    /\ WithoutEmail(pendingFile', e) = WithoutEmail(pendingFile, e)
    /\ WithoutEmail(validationFile', e) = WithoutEmail(validationFile, e)

\* C4 (as claimed): the code issued at time t expires at t + 10 minutes:
\* verify with the stored code is accepted at every now <= t + 10 minutes and
\* returns false, leaving the request pending_otp, at every later time.
C4_ExpiryIsTenMinutes ==
    [][\A e \in Emails, c \in OtpDraws :
          (/\ IsVerify(e, c)
           /\ StoredOtp(pendingFile, e) = <<c>>
           /\ otp_expires_at[e] # EmptyCell)
          => IF now <= otp_expires_at[e][1]
             THEN ret'.result # "False" /\ MovedToApproval(e)
             ELSE ret'.result = "False" /\ InPendingOtp(pendingFile', e)]_vars

\* C5 (as claimed): after a resend, verify with the code stored before it
\* returns false.
C5_OldCodeRejected ==
    [][\A e \in Emails :
          (/\ ret.op = "resend" /\ ret.email = e /\ ret.old # EmptyCell
           /\ ret'.op = "verify" /\ ret'.email = e /\ ret'.otp = ret.old)
          => ret'.result = "False"]_vars

\* C5 (amended): a successful resend stores the newly generated code and a
\* fresh expiry in the email's request and leaves every other row alone; verify
\* accepts no code but the one now stored, so the code stored before the
\* resend is rejected from then on unless the new draw equals it.
C5_OnlyNewCodeVerifies ==
    [][\A e \in Emails :
          /\ (IsResend(e) /\ InPendingOtp(pendingFile, e))
             => /\ ret'.otp # EmptyCell
                /\ StoredOtp(pendingFile', e) = ret'.otp
                /\ StoresLiveCode(pendingFile', e, ret'.otp[1], now + OtpTtl - SubSecondSteps + 1)
                /\ ~StoresLiveCode(pendingFile', e, ret'.otp[1], now + OtpTtl + 1)
                /\ ret'.old = StoredOtp(pendingFile, e)
                /\ Len(pendingFile') = Len(pendingFile)
                /\ OthersUnchanged(e)
          /\ (ret'.op = "verify" /\ ret'.email = e /\ ret'.result # "False")
             => ret'.otp = StoredOtp(pendingFile, e)
          /\ (/\ ret.op = "resend" /\ ret.email = e /\ ret.old # EmptyCell
              /\ ret.old # ret.otp
              /\ ret'.op = "verify" /\ ret'.email = e /\ ret'.otp = ret.old)
             => ret'.result = "False"]_vars

\* C5 witness: a resend replaced the stored code by a different one; the old
\* code would now be rejected and the new one accepted.
C5_Witness ==
    /\ ret.op = "resend" /\ ret.old # EmptyCell /\ ret.old # ret.otp
    /\ StoredOtp(pendingFile, ret.email) = ret.otp
    /\ ~VerifyAccepts(pendingFile, ret.email, ret.old[1], now)
    /\ VerifyAccepts(pendingFile, ret.email, ret.otp[1], now)

\* C6: resend for an email with no request awaiting its OTP returns None,
\* dispatches nothing and changes no stored record.
C6_ResendWithoutPendingOtp ==
    [][\A e \in Emails :
          (IsResend(e) /\ ~InPendingOtp(pendingFile, e))
          => /\ ret'.result = "None"
             /\ ret'.mail = "none"
             /\ UNCHANGED <<pendingFile, validationExists, validationFile, users>>]_vars

\* C6 witness: resend returned None for an email whose request had already
\* advanced to pending_approval, while another email's request awaits its OTP.
C6_Witness ==
    /\ ret.op = "resend" /\ ret.result = "None"
    /\ InPendingApproval(validationFile, ret.email)
    /\ pendingFile # <<>>

\* C7 (as claimed): after a signup replaced an earlier one of the same email,
\* verify with the earlier signup's code returns false.
C7_FirstCodeRejected ==
    [][\A e \in Emails :
          (/\ ret.op = "initiate" /\ ret.email = e /\ ret.old # EmptyCell
           /\ ret'.op = "verify" /\ ret'.email = e /\ ret'.otp = ret.old)
          => ret'.result = "False"]_vars

\* C7 (amended): an initiate for an email that already has a pending_otp
\* request leaves exactly one pending_otp row for it, holding the second
\* signup's code, and leaves the other emails' rows alone; a verify that
\* follows accepts the second code and rejects the first one unless the two
\* draws are equal.
C7_SecondSignupReplacesFirst ==
    [][\A e \in Emails :
          /\ (ret'.op = "initiate" /\ ret'.email = e)
             => /\ Len(WithEmail(pendingFile', e)) = 1
                /\ StoredOtp(pendingFile', e) = ret'.otp
                /\ ret'.old = StoredOtp(pendingFile, e)
                /\ OthersUnchanged(e)
          /\ (/\ ret.op = "initiate" /\ ret.email = e /\ ret.old # EmptyCell
              /\ ret'.op = "verify" /\ ret'.email = e)
             => /\ (ret'.otp = ret.old /\ ret.old # ret.otp) => ret'.result = "False"
                /\ (ret'.otp = ret.otp /\ now <= otp_expires_at[e][1] - SubSecondSteps)
                   => ret'.result # "False"]_vars

\* C7 witness: a second signup of an email replaced its pending_otp request
\* and drew another code; one row of the email remains, the first code would
\* be rejected and the second accepted.
C7_Witness ==
    /\ ret.op = "initiate" /\ ret.old # EmptyCell /\ ret.old # ret.otp
    /\ Len(WithEmail(pendingFile, ret.email)) = 1
    /\ ~VerifyAccepts(pendingFile, ret.email, ret.old[1], now)
    /\ VerifyAccepts(pendingFile, ret.email, ret.otp[1], now)

\* C8: every email has at most one non-terminal request, counting the rows
\* awaiting an OTP and the rows awaiting approval together.
C8_OneActiveRequestPerEmail ==
    \A e \in Emails :
        Len(WithEmail(pendingFile, e)) + Len(WithEmail(validationFile, e)) <= 1

\* the users with this email
UsersWithEmail(us, e) == SelectSeq(us, LAMBDA u : u.email = e)

\* C9: approve of a pending_approval request whose email no User has returns
\* success, creates exactly one User with the request's email, user_id and
\* hashed password, and takes the request out of the pending_approval set.
C9_ApproveCreatesUser ==
    [][\A e \in Emails :
          (/\ ret'.op = "approve" /\ ret'.email = e
           /\ InPendingApproval(validationFile, e)
           /\ UsersWithEmail(users, e) = <<>>)
          => /\ ret'.result = "True"
             /\ Len(UsersWithEmail(users', e)) = 1
             /\ \E r \in Range(validationFile) :
                   /\ r.email = e
                   /\ UsersWithEmail(users', e)[1].username = r.user_id
                   /\ UsersWithEmail(users', e)[1].password = r.user_password
             /\ ~InPendingApproval(validationFile', e)]_vars

\* C10: approve of a request whose email or user_id a User already has returns
\* the non-fatal (False, message) result, adds or changes no User and leaves
\* the request pending_approval.
C10_ApproveDuplicateFails ==
    [][\A e \in Emails :
          (/\ ret'.op = "approve" /\ ret'.email = e
           /\ \E r \in Range(validationFile), u \in Range(users) :
                 r.email = e /\ (u.email = r.email \/ u.username = r.user_id))
          => /\ ret'.result = "False: duplicate user"
             /\ users' = users
             /\ validationFile' = validationFile]_vars

\* C11: reject and handle_corrupted have the same effect on stored state: when
\* the email has a pending_approval request, every such record of the email
\* leaves the pending set, no User is created and the other emails' requests
\* are untouched; when it has none, both return a not-found failure and change
\* nothing.
C11_RejectAndCorruptedAlike ==
    [][\A e \in Emails :
          (ret'.op \in {"reject", "handle_corrupted"} /\ ret'.email = e)
          => IF InPendingApproval(validationFile, e)
             THEN /\ ~InPendingApproval(validationFile', e)
                  /\ users' = users
                  /\ pendingFile' = pendingFile
                  /\ OthersUnchanged(e)
             ELSE /\ ret'.result \in {"False: Request not found.",
                                      "False: Corrupted request not found."}
                  /\ UNCHANGED <<pendingFile, validationExists, validationFile, users>>]_vars

\* C12: approved and rejected are terminal: a request of the requests table
\* whose status is approved or rejected keeps that status through every later
\* call, and no call creates a User from it.
C12_TerminalStatusesStay ==
    [][\A r \in requests :
          r.status \in {"approved", "rejected"}
          => /\ \E q \in requests' : q.email = r.email /\ q.status = r.status
             /\ users' = users]_vars

\* the unused, unexpired tokens of the email at time t
ActiveTokens(rows, e, t) ==
    {r \in rows : r.email = e /\ ~r.used /\ t <= Strptime(r.expires_at)}

\* the row of the token, in a set
RowsOfToken(rows, tok) == {r \in rows : r.token = tok}

\* C13: every email has at most one active (unused, unexpired) reset token;
\* when request_reset(email) returns a new token, every token issued earlier
\* for the email is used and verifies to None, and the tokens of the other
\* emails are unchanged.
C13_OneActiveTokenPerEmail ==
    [][/\ \A e \in Emails : Cardinality(ActiveTokens(password_resets', e, now')) <= 1
       /\ (ret'.op = "forgot" /\ ret'.otp # EmptyCell)
          => /\ \A r \in password_resets :
                   IF r.email = ret'.email
                   THEN /\ [r EXCEPT !.used = TRUE] \in password_resets'
                        /\ verify_reset_token(password_resets', r.token, now') = EmptyCell
                   ELSE r \in password_resets'
             /\ \E r \in password_resets' :
                   r.token = ret'.otp[1] /\ r.email = ret'.email /\ ~r.used]_vars

\* C13 witness: a new token was returned while an earlier, still unexpired
\* token of the same email exists, now used.
C13_Witness ==
    /\ ret.op = "forgot" /\ ret.otp # EmptyCell
    /\ \E r \in password_resets :
          /\ r.email = ret.email /\ r.token # ret.otp[1]
          /\ r.used /\ now <= Strptime(r.expires_at)
    /\ Cardinality(ActiveTokens(password_resets, ret.email, now)) = 1

\* C14: verify(token) returns the owning email exactly when a record of the
\* token exists, is unused and now <= its issue time + 1 hour, and None
\* otherwise; it modifies no stored record.
C14_VerifyWithinTheHour ==
    [][ret'.op = "verify_reset_token"
       => /\ ret'.result =
                (IF \E r \in password_resets :
                       /\ r.token = ret'.otp[1] /\ ~r.used
                       /\ now <= token_expires_at[r.token][1]
                 THEN <<(CHOOSE r \in password_resets : r.token = ret'.otp[1]).email>>
                 ELSE EmptyCell)
          /\ UNCHANGED <<users, password_resets>>]_vars

\* C15: a reset token is consumed at most once: a used token stays used, a
\* consume that returns true leaves its token used, and consume of a used
\* token returns false and leaves every password hash as it was.
C15_ConsumeAtMostOnce ==
    [][/\ \A r \in password_resets : r.used => r \in password_resets'
       /\ ret'.op = "reset_password"
          => /\ ret'.result = "True"
                => /\ RowsOfToken(password_resets', ret'.otp[1]) # {}
                   /\ \A r \in RowsOfToken(password_resets', ret'.otp[1]) : r.used
             /\ (\E r \in RowsOfToken(password_resets, ret'.otp[1]) : r.used)
                => ret'.result = "False" /\ users' = users]_vars

\* C15 witness: a consume of a used token with another password returned
\* false, and the owner's hash is the one an earlier consume set.
C15_Witness ==
    /\ ret.op = "reset_password" /\ ret.result = "False"
    /\ \E r \in RowsOfToken(password_resets, ret.otp[1]) :
          /\ r.used
          /\ \E u \in Range(users) :
                /\ u.email = r.email
                /\ u.password \in {hash_password(pw) : pw \in Passwords}
                /\ <<u.password>> # ret.old

\* C16: consume does both updates or neither: when it returns true the
\* owner's hash is the hash of the new password and the token is used, all
\* else unchanged; when it returns false, as it does for an unknown, used or
\* expired token and when the transaction fails, no password hash and no
\* token has changed.
C16_ConsumeAllOrNothing ==
    [][ret'.op = "reset_password"
       => /\ ret'.result \in {"True", "False"}
          /\ ret'.result = "True"
             => \E r \in password_resets :
                   /\ r.token = ret'.otp[1]
                   /\ ~r.used /\ now <= Strptime(r.expires_at)
                   /\ password_resets' = (password_resets \ {r})
                                              \cup {[r EXCEPT !.used = TRUE]}
                   /\ Len(users') = Len(users)
                   /\ \E i \in 1..Len(users) : users[i].email = r.email
                   /\ \A i \in 1..Len(users) :
                         users'[i] = IF users[i].email = r.email
                                     THEN [users[i] EXCEPT !.password = ret'.old[1]]
                                     ELSE users[i]
          /\ ret'.result = "False" => UNCHANGED <<users, password_resets>>
          /\ (\A r \in RowsOfToken(password_resets, ret'.otp[1]) :
                 r.used \/ now > Strptime(r.expires_at))
             => ret'.result = "False"]_vars

\* C16 witness: consume of a valid token returned false because the
\* transaction failed; the token is still valid.
C16_Witness ==
    /\ ret.op = "reset_password" /\ ret.result = "False"
    /\ \E r \in RowsOfToken(password_resets, ret.otp[1]) :
          ~r.used /\ now <= Strptime(r.expires_at)

\* C17: request_reset for an email no User has returns None, creates and
\* invalidates no token and dispatches nothing; and every token record is
\* created for an email that is a User's email at that time.
C17_NoTokenForUnknownEmail ==
    [][/\ (ret'.op = "forgot" /\ \A u \in Range(users) : u.email # ret'.email)
          => /\ ret'.otp = EmptyCell
             /\ ret'.mail = "none"
             /\ password_resets' = password_resets
       /\ \A r \in password_resets' :
             RowsOfToken(password_resets, r.token) = {}
             => \E u \in Range(users) : u.email = r.email]_vars

\* C17 witness: request_reset of an unknown email returned None while a
\* User's unused token is stored.
C17_Witness ==
    /\ ret.op = "forgot" /\ ret.otp = EmptyCell /\ ret.mail = "none"
    /\ \A u \in Range(users) : u.email # ret.email
    /\ \E r \in password_resets : ~r.used

\* C18: a forgot-password submission shows the same message whether or not
\* the email belongs to a User and whether the dispatch of the reset link
\* succeeds or raises a configuration or sending error; no error is shown.
C18_ForgotOutcomeIsUniform ==
    [][ret'.op = "forgot" => ret'.result = ForgotMessage]_vars

\* C18 witness: the message was shown although a token was issued and its
\* dispatch raised a sending error.
C18_Witness ==
    /\ ret.op = "forgot" /\ ret.result = ForgotMessage
    /\ ret.otp # EmptyCell /\ ret.mail = "EmailSendingError"

\* C19 (as claimed): when neither the users nor the pending-approval requests
\* hold the submitted email, user id or contact number, check_uniqueness
\* returns no error and no notification.
C19_AbsentValuesPass ==
    [][(/\ ret'.op = "check_uniqueness"
        /\ \A u \in Range(users) : u.email # ret'.email /\ <<u.username>> # ret'.otp
        /\ \A r \in Range(validationFile) :
              /\ r.email # ret'.email
              /\ <<r.user_id>> # ret'.otp
              /\ <<r.contact_number>> # ret'.old)
       => /\ ret'.result.errors = {}
          /\ ret'.result.notifications = {}]_vars

\* C20: for an email that a User or a pending-approval request has,
\* check_uniqueness reports the email error, once, and one notification keyed
\* "Email Address", whose value is the submitted email.
C20_DuplicateEmailReported ==
    [][(/\ ret'.op = "check_uniqueness"
        /\ \/ \E u \in Range(users) : u.email = ret'.email
           \/ \E r \in Range(validationFile) : r.email = ret'.email)
       => /\ EmailError \in ret'.result.errors
          /\ {n \in ret'.result.notifications : n[1] = "Email Address"}
                = {<<"Email Address", ret'.email>>}]_vars

\* C20 witness: the email error and its notification were returned for an
\* email that only a pending-approval request has, beside no other error.
C20_Witness ==
    /\ ret.op = "check_uniqueness"
    /\ \E r \in Range(validationFile) : r.email = ret.email
    /\ \A u \in Range(users) : u.email # ret.email
    /\ ret.result.errors = {EmailError}
    /\ ret.result.notifications = {<<"Email Address", ret.email>>}

\* the emails of the records (users, pending-approval requests) that hold the user id
UserIdOwners(user_id) ==
    {u.email : u \in {v \in Range(users) : v.username = user_id}}
    \cup {r.email : r \in {q \in Range(validationFile) : q.user_id = user_id}}

\* the emails of the pending-approval requests that hold the contact number
ContactOwners(contact_number) ==
    {r.email : r \in {q \in Range(validationFile) : q.contact_number = contact_number}}

\* the notifications returned under one key
Keyed(notifications, key) == {n \in notifications : n[1] = key}

\* C21 (as claimed): a submitted user id (contact number) that an existing
\* record holds gets the field's error, and one notification keyed "User ID"
\* ("Contact Number") naming the email of a record that owns the value,
\* unless the owner's email is the submitted one, when there is none.
C21_ConflictReportedWithOwner ==
    [][ret'.op = "check_uniqueness" =>
        /\ UserIdOwners(ret'.otp[1]) # {} =>
              /\ UserIdError \in ret'.result.errors
              /\ Keyed(ret'.result.notifications, "User ID")
                    \subseteq {<<"User ID", o>> : o \in UserIdOwners(ret'.otp[1]) \ {ret'.email}}
              /\ ret'.email \notin UserIdOwners(ret'.otp[1])
                    => Cardinality(Keyed(ret'.result.notifications, "User ID")) = 1
        /\ ContactOwners(ret'.old[1]) # {} =>
              /\ ContactError \in ret'.result.errors
              /\ Keyed(ret'.result.notifications, "Contact Number")
                    \subseteq {<<"Contact Number", o>> :
                                  o \in ContactOwners(ret'.old[1]) \ {ret'.email}}
              /\ ret'.email \notin ContactOwners(ret'.old[1])
                    => Cardinality(Keyed(ret'.result.notifications, "Contact Number")) = 1]_vars

\* the messages of the fields whose submitted value an existing record holds
ConflictMessages(email, user_id, contact_number) ==
    (IF \/ \E u \in Range(users) : u.email = email
        \/ \E r \in Range(validationFile) : r.email = email
     THEN {EmailError} ELSE {})
    \cup (IF UserIdOwners(user_id) # {} THEN {UserIdError} ELSE {})
    \cup (IF ContactOwners(contact_number) # {} THEN {ContactError} ELSE {})

\* C22 (as claimed): check_uniqueness checks the three fields one by one and
\* stops at none: its errors are the messages of exactly the fields whose
\* value conflicts, and the call changes no stored record.
C22_FieldsCheckedIndependently ==
    [][ret'.op = "check_uniqueness" =>
        /\ ret'.result.errors = ConflictMessages(ret'.email, ret'.otp[1], ret'.old[1])
        /\ UNCHANGED <<users, pendingFile, validationExists, validationFile, requests>>]_vars

\* C23 (as claimed): a user id or contact number that a request of another
\* email holds while that request still awaits its OTP is reported as a
\* conflict.
C23_PendingOtpValuesConflict ==
    [][ret'.op = "check_uniqueness" =>
        \A r \in Range(pendingFile) :
            (r.status = "awaiting_otp" /\ r.email # ret'.email) =>
                /\ <<r.user_id>> = ret'.otp => UserIdError \in ret'.result.errors
                /\ <<r.contact_number>> = ret'.old => ContactError \in ret'.result.errors]_vars

\* C24 (as claimed): approve of a pending-approval request with contact
\* number c creates the User, and check_uniqueness for another email, a new
\* user id and the same c then still reports the contact-number error.
C24_ApprovedContactStaysTaken ==
    [][\A r \in Range(validationFile) :
          (ret'.op = "approve" /\ ret'.email = r.email) =>
              /\ UsersWithEmail(users', r.email) # <<>>
              /\ \A b \in Emails \ {r.email} :
                    ContactError \in
                        check_uniqueness(b, "u9", r.contact_number, users',
                                         validationExists', validationFile').errors]_vars

InitiateFailed == ret.op = "initiate" /\ ret.mail # "sent"

\* C27 (as claimed): when the OTP dispatch fails during initiate, a resend
\* for the email that follows returns a new expiry, and the request can be
\* verified with the resent code.
C27_ResendReturnsExpiry ==
    [][(InitiateFailed /\ ret'.op = "resend" /\ ret'.email = ret.email)
       => /\ ret'.result = "expires"
          /\ VerifyAccepts(pendingFile', ret'.email, ret'.otp[1], now')]_vars

\* C27 (amended): an initiate whose dispatch fails raises the typed error
\* with the request already stored, awaiting its OTP, with the code and the
\* expiry; a resend that follows finds it and never returns None: it returns
\* the new expiry when its own dispatch succeeds and raises the typed error
\* when that fails too, and either way the resent code then verifies.
C27_FailedInitiateIsResendable ==
    [][/\ (ret'.op = "initiate" /\ ret'.mail # "sent")
          => /\ ret'.result = ret'.mail
             /\ \E r \in Range(pendingFile') :
                   /\ r.email = ret'.email /\ r.status = "awaiting_otp"
                   /\ r.otp = ret'.otp
                   /\ r.otp_expires_at = Strftime(ExpiresAt(now))
       /\ (InitiateFailed /\ ret'.op = "resend" /\ ret'.email = ret.email)
          => /\ ret'.result # "None"
             /\ ret'.mail = "sent" =>
                   ret'.result = "expires" /\ ret'.expires = <<ExpiresAt(now)>>
             /\ ret'.mail # "sent" => ret'.result = ret'.mail
             /\ ret'.otp # EmptyCell
             /\ VerifyAccepts(pendingFile', ret'.email, ret'.otp[1], now')]_vars

\* C27 witness: an initiate raised a sending error and left a request that a
\* resend finds and whose code verifies.
C27_Witness ==
    /\ InitiateFailed /\ ret.result = "EmailSendingError"
    /\ AwaitingIndex(pendingFile, ret.email) # 0
    /\ VerifyAccepts(pendingFile, ret.email, ret.otp[1], now)

\* the step's notification was attempted and its dispatch raised
DispatchFailed == ret'.mail \in DispatchOutcomes \ {"sent"}

\* C28 (as claimed): resend, verify, approve and reject commit their state
\* change before the notification is dispatched, and a failed dispatch does
\* not undo it: the new code is stored, the request is pending_approval, the
\* User is created and its request removed, the rejected request is removed.
C28_CommitBeforeDispatch ==
    [][\A e \in Emails :
          /\ (ret'.op = "resend" /\ ret'.email = e /\ DispatchFailed)
                => \E r \in Range(pendingFile') :
                      /\ r.email = e /\ r.status = "awaiting_otp"
                      /\ r.otp = ret'.otp
                      /\ r.otp_expires_at = Strftime(ExpiresAt(now))
          /\ (ret'.op = "verify" /\ ret'.email = e /\ DispatchFailed)
                => MovedToApproval(e) /\ ~InPendingOtp(pendingFile', e)
          /\ (ret'.op = "reject" /\ ret'.email = e /\ DispatchFailed)
                => ~InPendingApproval(validationFile', e)
          /\ (/\ ret'.op = "approve" /\ ret'.email = e
              /\ InPendingApproval(validationFile, e)
              /\ UsersWithEmail(users, e) = <<>>)
                => /\ Len(UsersWithEmail(users', e)) = 1
                   /\ ~InPendingApproval(validationFile', e)]_vars

\* what approve_request returns when it returns: success, or a failure result
ApproveReturns == {"True", "False: Request not found.", "False: duplicate user"}

\* C29 (as claimed): of two approve calls for the same pending-approval
\* request, however they interleave, each returns a result instead of
\* raising, at most one of them reports success, and exactly one User with
\* the email exists afterwards. approve_request writes nothing before it
\* raises, so every interleaving of two calls leaves what two calls in a row
\* leave, and each call is a step from a state where the request is pending:
\* the call that finds no User yet, and the call that finds the other's.
C29_ConcurrentApproveOnce ==
    [][\A e \in Emails :
          (/\ ret'.op = "approve" /\ ret'.email = e
           /\ InPendingApproval(validationFile, e))
          => /\ ret'.result \in ApproveReturns
             /\ UsersWithEmail(users, e) # <<>> => ret'.result # "True"
             /\ Len(UsersWithEmail(users', e)) = 1]_vars

\* the unused tokens of the email in the table
Unused(rows, e) == {r \in rows : r.email = e /\ ~r.used}

\* C30: generate_reset_token invalidates the old unused tokens and inserts
\* the new one as one atomic step: whenever the table that a concurrent
\* verify reads changes, the old tokens of the email are invalidated and the
\* new token is present at once; a call that returns None, as when the insert
\* fails, leaves the table as it was; and no email ever has two unused
\* tokens, in particular after two concurrent calls have completed.
C30_RequestResetAtomic ==
    [][/\ password_resets' # password_resets =>
             \E n \in password_resets' :
                 /\ ~n.used
                 /\ \A r \in password_resets : r.token # n.token
                 /\ password_resets' = Invalidate(password_resets, n.email) \cup {n}
       /\ (ret'.op = "generate_reset_token" /\ ret'.result = "None")
             => password_resets' = password_resets
       /\ \A e \in Emails : Cardinality(Unused(password_resets', e)) <= 1]_vars

\* C30 witness: a second call for the email has committed its token while
\* the other session, having found the user, has not written yet: the first
\* token is used, the new one is the only unused one.
C30_Witness ==
    /\ ret.op = "generate_reset_token" /\ ret.result = "token"
    /\ \E s \in Sessions : sessions[s].pc = "found" /\ sessions[s].email = ret.email
    /\ \E r \in password_resets : r.email = ret.email /\ r.used
    /\ Cardinality(Unused(password_resets, ret.email)) = 1

\* C31: for every non-empty password p and every p2 other than p, every hash
\* produced for p, whatever its salt, is a string other than p, verifies p
\* and does not verify p2; two hashes of one p may differ.
C31_HashVerifies ==
    [][/\ ret'.op = "hash_password" =>
             /\ ret'.result[1] = "hash"
             /\ ret'.result # <<"plain", ret'.result[2], ret'.otp[1]>>
             /\ verify_password(ret'.otp[1], ret'.result)
       /\ (ret'.op = "verify_password" /\ ret'.old[1] # Malformed) =>
             \A p \in Plaintexts :
                 (\E salt \in Salts : ret'.old[1] = salted_hash(p, salt))
                 => (ret'.result <=> ret'.otp[1] = p)]_vars

\* C31 witness: a password was refused by a hash of another password, taken
\* with another salt than the handlers'.
C31_Witness ==
    /\ ret.op = "verify_password" /\ ret.result = FALSE
    /\ ret.otp = <<"pw2">>
    /\ ret.old = <<salted_hash("pw1", 2)>>

\* C32 (as claimed): validate_password(p) is true exactly when p has at
\* least 8 characters and contains a decimal digit.
C32_EightCharsAndDecimalDigit ==
    [][ret'.op = "validate_password" =>
          (ret'.result <=>
              /\ Len(ret'.otp[1]) >= 8
              /\ "decimal" \in Range(ret'.otp[1]))]_vars

\* C32 (amended): validate_password(p) is true when p has at least 8
\* characters and contains a decimal digit, and false when p has fewer than 8
\* characters (the empty string too) or consists of letters only; a text of 8
\* characters or more whose only digits are digit characters that are no
\* decimal digits, such as the superscript two, is accepted as well.
C32_EightCharsAndDigitCharacter ==
    [][ret'.op = "validate_password" =>
          /\ (Len(ret'.otp[1]) >= 8 /\ "decimal" \in Range(ret'.otp[1]))
                => ret'.result
          /\ (Len(ret'.otp[1]) < 8 \/ Range(ret'.otp[1]) \subseteq {"letter"})
                => ~ret'.result
          /\ (Len(ret'.otp[1]) >= 8 /\ "superscript" \in Range(ret'.otp[1]))
                => ret'.result]_vars

\* C32 witness: a text of exactly 8 decimal digits was accepted.
C32_Witness ==
    /\ ret.op = "validate_password" /\ ret.result = TRUE
    /\ Len(ret.otp[1]) = 8
    /\ Range(ret.otp[1]) = {"decimal"}

\* C33: approve and reject called for an email whose request still awaits
\* its OTP fail, create no User and leave every request as it is; the
\* administrator's list holds pending-approval requests only.
C33_DecisionsNeedVerifiedRequest ==
    [][\A e \in Emails :
          (/\ ret'.op \in {"approve", "reject"} /\ ret'.email = e
           /\ InPendingOtp(pendingFile, e) /\ ~InPendingApproval(validationFile, e))
          => /\ ret'.result \in {"False: Request not found.", "KeyError"}
             /\ users' = users
             /\ pendingFile' = pendingFile
             /\ validationFile' = validationFile
             /\ \A r \in Range(validationFile') : r.status = "pending"]_vars

\* C33 witness: reject was called for an email whose request awaits its OTP,
\* beside another email's verified request, and reported that it found none.
C33_Witness ==
    /\ ret.op = "reject" /\ ret.result = "False: Request not found."
    /\ InPendingOtp(pendingFile, ret.email)
    /\ validationFile # <<>>

\* C34 (as claimed): a stored request has a one-time code and an expiry
\* exactly when its status is pending_otp.
C34_CodeOnlyWhilePendingOtp ==
    \A r \in requests :
        (r.otp # EmptyCell /\ r.otp_expires_at # EmptyCell) <=> r.status = "pending_otp"

\* C35 (as claimed): of two consume calls with the same valid token, each a
\* verification followed by a separate update, at most one returns true and
\* sets the password: a call that returns true finds the token still unused
\* when it writes.
C35_ConcurrentConsumeOnce ==
    [][(ret'.op = "reset_password" /\ ret'.result = "True")
       => \E r \in password_resets : r.token = ret'.otp[1] /\ ~r.used]_vars

\* C36 (as claimed): a verified request is neither lost nor resurrected when
\* verify(a) runs beside reject(b). When the verify rewrites the validation
\* file, a's request is pending_approval and no other email's request
\* reappears that was not there just before (a rejected request does not come
\* back); when the reject rewrites it, b's request is gone and no other
\* email's request that was there just before is lost (a verified one stays).
C36_VerifyBesideRejectKeepsBoth ==
    [][\A s \in Sessions :
          /\ (sessions[s].pc = "verify_read" /\ sessions'[s].pc = "idle")
             => /\ InPendingApproval(validationFile', sessions[s].email)
                /\ \A e \in Emails \ {sessions[s].email} :
                      InPendingApproval(validationFile', e)
                          => InPendingApproval(validationFile, e)
          /\ (sessions[s].pc = "reject_read" /\ sessions'[s].pc = "idle")
             => /\ ~InPendingApproval(validationFile', sessions[s].email)
                /\ \A e \in Emails \ {sessions[s].email} :
                      InPendingApproval(validationFile, e)
                          => InPendingApproval(validationFile', e)]_vars

\* C37 (as claimed): creating or replacing the request of email e changes only
\* the request keyed by e. Every stored request of another email, one that
\* shares e's user_id or contact_number included, is still stored unchanged
\* afterwards, and a request of e that is pending_approval, approved or
\* rejected is not reset to pending_otp.
C37_CreateChangesOnlyItsEmail ==
    [][(ret'.op = "create_pending_request" /\ ret'.result = "None")
       => /\ \A r \in requests : r.email # ret'.email => r \in requests'
          /\ \A r \in requests, n \in requests' :
                (/\ r.email = ret'.email /\ n.email = ret'.email
                 /\ r.status \in {"pending_approval", "approved", "rejected"})
                => n.status # "pending_otp"]_vars

\* C38 (as claimed): authenticate_user(email, p) is true exactly when a User
\* with the email exists and p is the password most recently set for it. No
\* password authenticates an email without a User; once a verified request is
\* approved exactly its sign-up password authenticates; after a successful
\* reset exactly the new password does; no other step changes an outcome.
C38_AuthenticatesLatestPassword ==
    [][/\ \A e \in Emails, p \in Plaintexts :
             find_user_by_email(users', e) = EmptyCell => ~authenticate_user(users', e, p)
       /\ IF ret'.op = "reset_password" /\ ret'.result = "True"
          THEN \A e \in Emails, p \in Plaintexts :
                  authenticate_user(users', e, p)
                  <=> IF verify_reset_token(password_resets, ret'.otp[1], now) = <<e>>
                      THEN hash_password(p) = ret'.old[1]
                      ELSE authenticate_user(users, e, p)
          ELSE IF /\ ret'.op = "approve" /\ validationExists
                  /\ RequestByEmail(validationFile, ret'.email) # <<>>
                  /\ find_user_by_email(users, ret'.email) = EmptyCell
          THEN \A e \in Emails, p \in Plaintexts :
                  authenticate_user(users', e, p)
                  <=> IF e = ret'.email
                      THEN verify_password(p, RequestByEmail(validationFile,
                                                             e)[1].user_password)
                      ELSE authenticate_user(users, e, p)
          ELSE \A e \in Emails, p \in Plaintexts :
                  authenticate_user(users', e, p) <=> authenticate_user(users, e, p)]_vars

\* C39: token validity is monotone. Every row of password_resets stays, with
\* the same token, email and expiry, and a used flag that never goes from true
\* back to false; so an issued token for which verify returns None at one
\* moment has verify return None after every step, whichever it is (a reset
\* request, a consume, a sign-up, an approval, the passing of time).
C39_TokenValidityMonotone ==
    [][/\ \A r \in password_resets :
             \E n \in password_resets' :
                /\ n.token = r.token /\ n.email = r.email
                /\ n.expires_at = r.expires_at /\ (r.used => n.used)
       /\ \A t \in Tokens :
             (/\ RowsOfToken(password_resets, t) # {}
              /\ verify_reset_token(password_resets, t, now) = EmptyCell)
             => verify_reset_token(password_resets', t, now') = EmptyCell]_vars

\* C39 witness: the reset page got None for an issued token that is used,
\* after a later reset request gave the same email a second token.
C39_Witness ==
    /\ ret.op = "verify_reset_token" /\ ret.result = EmptyCell
    /\ \E r \in RowsOfToken(password_resets, ret.otp[1]) :
          /\ r.used
          /\ \E n \in password_resets : n.email = r.email /\ n.token # r.token

\* C40 (as claimed): after reject(email) or handle_corrupted(email) has
\* removed the request, the applicant can sign up again: a submission with
\* the same email, user_id and contact_number passes check_uniqueness with no
\* errors, and the initiate that follows leaves a request awaiting its OTP.
C40_RejectedCanSignUpAgain ==
    [][\A e \in Emails :
          (/\ ret'.op \in {"reject", "handle_corrupted"} /\ ret'.email = e
           /\ validationExists /\ RequestByEmail(validationFile, e) # <<>>)
          => /\ ~InPendingApproval(validationFile', e)
             /\ \A r \in Range(RequestByEmail(validationFile, e)) :
                   /\ check_uniqueness(e, r.user_id, r.contact_number, users',
                                       validationExists', validationFile').errors = {}
                   /\ InPendingOtp(PendingAfterInitiate(pendingFile',
                          RequestData([email |-> e, user_id |-> r.user_id,
                                       contact_number |-> r.contact_number,
                                       password |-> "pw1"], OtpLow, now'), "sent"), e)]_vars

============================================================================
